---------------------------- MODULE Spec2Model ----------------------------
(***************************************************************************)
(* Trial by Hex: a document is sent to a panel of reviewer models through  *)
(* OpenRouter, each review falls back to a list of substitute models, the  *)
(* reviews are synthesised by one more model call, a verdict is read off   *)
(* the synthesis text and a report is written.                             *)
(*                                                                         *)
(* Three scripts are modelled: "legacy" (src/.py/trial_by_hex.py), "hex"   *)
(* (src/trial_by_hex.py) and "plus" (src/trial_by_hex_plus.py).            *)
(*                                                                         *)
(* A Python string is a sequence of tokens (TLA+ strings): concatenation,  *)
(* f-strings and str.join are sequence concatenation.  A synthesis text is *)
(* a sequence of one-character tokens, so that upper() and the substring   *)
(* test work on characters.                                                *)
(***************************************************************************)
EXTENDS Integers, Sequences, FiniteSets, TLC

VARIABLES
    script,       \* which of the three scripts runs
    panel,        \* REVIEWERS of the run
    apiKeySet,    \* OPENROUTER_API_KEY is set
    inputExists,  \* the input file exists
    content,      \* the document text read from the input file
    pc,           \* position in trial_by_hex / get_review
    idx,          \* 1-based position of the for loop over REVIEWERS
    reviews,      \* the list `reviews`
    attempts,     \* the openrouter_request calls of the current get_review, with results
    e,            \* get_review's `e`: the primary's exception
    fb,           \* position in `for fallback in FALLBACK_MODELS`
    review,       \* the value get_review returned
    exc,          \* the exception in flight (raised by get_review or by the run)
    calls,        \* every request sent to OpenRouter so far, in order
    synthesis,    \* the text synthesize_reviews returned
    written,      \* the report files written (none, or one)
    returned,     \* the values trial_by_hex returned (none, or one)
    earlier       \* what an earlier run of the same script left (none, or one record)

vars == <<script, panel, apiKeySet, inputExists, content, pc, idx, reviews,
          attempts, e, fb, review, exc, calls, synthesis, written, returned,
          earlier>>

-----------------------------------------------------------------------------
(* Bounds *)

\* The longest panel a run is checked with.
MaxPanel == 2

-----------------------------------------------------------------------------
(* Sequences as Python strings and lists *)

RECURSIVE Concat(_)
\* "".join(parts): the concatenation of a list of strings.
Concat(parts) ==
    IF parts = <<>> THEN <<>> ELSE Head(parts) \o Concat(Tail(parts))

RECURSIVE Join(_, _)
\* sep.join(parts)
Join(sep, parts) ==
    IF parts = <<>> THEN <<>>
    ELSE IF Len(parts) = 1 THEN parts[1]
    ELSE parts[1] \o sep \o Join(sep, Tail(parts))

\* s[:n] on a string held as chunks: the first n chunks.
Take(s, n) == SubSeq(s, 1, IF Len(s) < n THEN Len(s) ELSE n)

\* needle in hay
Contains(hay, needle) ==
    \E i \in 1..(Len(hay) - Len(needle) + 1) :
        SubSeq(hay, i, i + Len(needle) - 1) = needle

UpperChar(c) ==
    CASE c = "a" -> "A" [] c = "c" -> "C" [] c = "e" -> "E" [] c = "i" -> "I"
      [] c = "j" -> "J" [] c = "n" -> "N" [] c = "o" -> "O" [] c = "p" -> "P"
      [] c = "r" -> "R" [] c = "s" -> "S" [] c = "t" -> "T" [] c = "v" -> "V"
      [] OTHER -> c

\* str.upper()
Upper(s) == [i \in 1..Len(s) |-> UpperChar(s[i])]

\* str(i) for the positions a panel has.
NumStr(i) == <<"1", "2", "3", "4", "5", "6", "7", "8", "9", "10", "11", "12">>[i]

-----------------------------------------------------------------------------
(* Configuration *)

\* A model id "vendor/name" is held as its '/'-separated segments.
Sonnet   == <<"anthropic", "claude-sonnet-4.5">>
Gpt51    == <<"openai", "gpt-5.1">>
Gemini   == <<"google", "gemini-3-pro-preview">>
Grok     == <<"x-ai", "grok-4.1-fast:free">>
DeepSeek == <<"deepseek", "deepseek-chat-v3.1">>
GptMini  == <<"openai", "gpt-5-mini">>
Opus     == <<"anthropic", "claude-opus-4.5">>
Haiku    == <<"anthropic", "claude-haiku-4.5">>
GptNano  == <<"openai", "gpt-5-nano">>

\* A persona is held as chunks of at most 100 characters: the six original
\* personas are one chunk, the plus personas (1222 to 1861 characters) are
\* their first 100 characters, their next 100 and the rest.
ORIGINAL_REVIEWERS == <<
    [model |-> Sonnet,
     persona |-> <<"technical specialist focused on methodology and rigor">>],
    [model |-> Gpt51,
     persona |-> <<"skeptical critic looking for weaknesses and logical gaps">>],
    [model |-> Gemini,
     persona |-> <<"constructive reviewer focused on practical improvement">>],
    [model |-> Grok,
     persona |-> <<"accessibility reviewer checking clarity for general audience">>],
    [model |-> DeepSeek,
     persona |-> <<"literature reviewer checking connections to existing work">>],
    [model |-> GptMini,
     persona |-> <<"experimental design and reproducibility reviewer">>] >>

PLUS_REVIEWERS == <<
    [model |-> Opus, name |-> <<"The Logical Consistency Reviewer">>,
     persona |-> <<"logician and meta-theorist enforcing the Laws of Logic.",
                   "logician[100:200]", "logician[200:]">>],
    [model |-> Sonnet, name |-> <<"The Semantic Analyst (The Wittgensteinian)">>,
     persona |-> <<"Wittgensteinian language analyst focused on linguistic precision",
                   "Wittgensteinian[100:200]", "Wittgensteinian[200:]">>],
    [model |-> Gpt51, name |-> <<"The Ethical Alignment Sentinel">>,
     persona |-> <<"ethical analyst focused on bias, societal impact, and safety.",
                   "ethical[100:200]", "ethical[200:]">>],
    [model |-> Gemini, name |-> <<"The Systems Architect">>,
     persona |-> <<"systems engineer focused on feasibility, scalability",
                   "systems[100:200]", "systems[200:]">>],
    [model |-> DeepSeek, name |-> <<"The Interdisciplinary Catalyst">>,
     persona |-> <<"interdisciplinary synthesist focused on lateral thinking",
                   "interdisciplinary[100:200]", "interdisciplinary[200:]">>],
    [model |-> Grok, name |-> <<"The Steel Man Advocate">>,
     persona |-> <<"charitable interpreter focused on making the STRONGEST",
                   "charitable[100:200]", "charitable[200:]">>] >>

\* A panel in which every entry is listed twice.
REVIEWERS_Repeated(s) == ORIGINAL_REVIEWERS \o ORIGINAL_REVIEWERS

\* REVIEWERS of each script.
REVIEWERS(s) ==
    IF s = "plus" THEN ORIGINAL_REVIEWERS \o PLUS_REVIEWERS ELSE ORIGINAL_REVIEWERS

FALLBACK_MODELS == <<Grok, Haiku, GptNano>>

\* synthesize_reviews' default synthesis_model
SYNTHESIS_MODEL == Opus

\* max_tokens of a review request and of the synthesis request
ReviewTokens(s) == IF s = "plus" THEN 2000 ELSE 1500
SynthesisTokens(s) == IF s = "plus" THEN 3000 ELSE 2000

Scripts == {"legacy", "hex", "plus"}

\* The panels runs are checked with: the windows of at most MaxPanel
\* consecutive entries of the script's REVIEWERS.
Panels(s) ==
    UNION { { SubSeq(REVIEWERS(s), a, a + n - 1) :
                a \in 1..(Len(REVIEWERS(s)) - n + 1) } : n \in 1..MaxPanel }

\* The documents runs are checked with.
Documents == { <<"document text">> }

\* The failure causes an invocation is checked with (str(e) of the exception).
Causes == { <<"Read timed out">>, <<"500 Server Error">> }

\* The synthesis texts runs are checked with, one character per token.
SynthesisTexts == {
    <<"P", "A", "S", "S">>,
    <<"P", "a", "s", "s">>,
    <<"R", "E", "V", "I", "S", "E">>,
    <<"R", "E", "J", "E", "C", "T">>,
    <<"o", "k">>,
    <<"P", "A", "S", "S", " ", "n", "o", "t", " ", "R", "E", "J", "E", "C", "T">> }

-----------------------------------------------------------------------------
(* openrouter_request: the requests and what OpenRouter may answer *)

\* model.split('/')[-1]
ModelShort(model) == model[Len(model)]

\* The payload of openrouter_request.
Request(model, messages, max_tokens) ==
    [model |-> model, messages |-> messages, max_tokens |-> max_tokens]

\* get_review's system prompt.
SystemPrompt(s, reviewer) ==
    IF s = "plus" /\ "name" \in DOMAIN reviewer
    THEN <<"You are ">> \o reviewer.name \o <<", a ">> \o reviewer.persona
         \o <<"\n\nYou are conducting a blind peer review. Focus ONLY on your specialized domain.">>
    ELSE <<"You are a ">> \o reviewer.persona
         \o <<" conducting a blind peer review.\n\nEvaluate this work on:">>

\* get_review's messages.
ReviewMessages(s, reviewer, doc) ==
    << [role |-> "system", content |-> SystemPrompt(s, reviewer)],
       [role |-> "user", content |-> doc] >>

\* A get_review whose fallback requests carry a cut document.
ReviewRequest_FallbackCut(s, reviewer, model, doc) ==
    Request(model,
            ReviewMessages(s, reviewer, IF model = reviewer.model THEN doc ELSE Take(doc, 0)),
            ReviewTokens(s))

\* The request get_review sends to `model` for `reviewer`.
ReviewRequest(s, reviewer, model, doc) ==
    Request(model, ReviewMessages(s, reviewer, doc), ReviewTokens(s))

\* The text a model returns for a review request: it is whatever that model
\* writes in answer to those messages.
ReviewText(req) ==
    <<"review by ", ModelShort(req.model), " answering: ">> \o req.messages[1].content

\* openrouter_request either returns data['choices'][0]['message']['content']
\* or raises (requests.post, raise_for_status, response.json, the indexing).
ReviewResponses(req) ==
    { [ok |-> TRUE, val |-> ReviewText(req)] }
        \cup { [ok |-> FALSE, val |-> c] : c \in Causes }

SynthesisResponses ==
    { [ok |-> TRUE, val |-> t] : t \in SynthesisTexts }
        \cup { [ok |-> FALSE, val |-> c] : c \in Causes }

-----------------------------------------------------------------------------
(* get_review *)

\* A get_review that does not return the primary's text and goes on to the fallbacks.
AfterAttempt_FallsThrough(ok, k) == IF ok /\ k > 0 THEN "got" ELSE "fallback"

\* try: return openrouter_request(...) / except: go on with the fallbacks.
\* k is 0 for the primary and the position in FALLBACK_MODELS otherwise.
AfterAttempt(ok, k) == IF ok THEN "got" ELSE "fallback"

\* A loop over the fallbacks from the last to the first.
NextFallback_Reversed(k) == FALLBACK_MODELS[Len(FALLBACK_MODELS) + 1 - k]

\* A loop that passes over a fallback equal to the reviewer's own model and
\* takes the one after it.
NextFallback_SkipsPrimary(k) ==
    IF FALLBACK_MODELS[k] = panel[idx].model /\ k < Len(FALLBACK_MODELS)
    THEN FALLBACK_MODELS[k + 1]
    ELSE FALLBACK_MODELS[k]

\* for fallback in FALLBACK_MODELS: the k-th model tried.
NextFallback(k) == FALLBACK_MODELS[k]

\* A get_review that raises the last fallback's exception.
RaisedCause_LastFallback(primaryCause, lastCause) == lastCause

\* raise e, after the loop over the fallbacks, inside `except Exception as e`.
RaisedCause(primaryCause, lastCause) == primaryCause

-----------------------------------------------------------------------------
(* trial_by_hex / trial_by_hex_plus: the dispatch loop *)

\* A loop that stops one reviewer early.
DispatchDone_OffByOne(i, n) == i >= n

\* for i, reviewer in enumerate(REVIEWERS): the loop is over.
DispatchDone(i, n) == i > n

\* A loop without the try block: a failed review leaves trial_by_hex.
ReviewErrorPropagates == FALSE

\* try: get_review(...) / except Exception as e: the loop catches a failed review.
CatchesReviewError == TRUE

\* f"Review failed: {e}"
Placeholder(cause) == <<"Review failed: ">> \o cause

\* reviews.append(review)
RecordReview(revs, text) == Append(revs, text)

\* An except clause that records nothing for the failed reviewer.
RecordFailure_Dropped(revs, cause) == revs

\* reviews.append(f"Review failed: {e}")
RecordFailure(revs, cause) == Append(revs, Placeholder(cause))

-----------------------------------------------------------------------------
(* synthesize_reviews *)

\* The separator of "\n\n---REVIEW---\n\n".join(...)
REVIEW_DELIMITER == <<"\n\n---REVIEW---\n\n">>

\* A label that counts the unnamed reviewers from the wrong position.
DisplayName_Shifted(reviewer, i) ==
    IF "name" \in DOMAIN reviewer THEN reviewer.name ELSE <<"Reviewer ", NumStr(i + 1)>>

\* reviewer.get('name', f"Reviewer {i+1}"), i+1 being the 1-based position
DisplayName(reviewer, i) ==
    IF "name" \in DOMAIN reviewer THEN reviewer.name ELSE <<"Reviewer ", NumStr(i)>>

\* zip(reviews, reviewer_info) stops at the shorter of the two.
ZipLen(revs, reviewer_info) ==
    IF Len(revs) < Len(reviewer_info) THEN Len(revs) ELSE Len(reviewer_info)

\* formatted_reviews: f"### {name}\n{review}" for each zipped pair
FormattedReviews(revs, reviewer_info) ==
    [i \in 1..ZipLen(revs, reviewer_info) |->
        <<"### ">> \o DisplayName(reviewer_info[i], i) \o <<"\n">> \o revs[i]]

\* combined: the user message of the synthesis request
Combined(s, revs, reviewer_info) ==
    IF s = "plus"
    THEN Join(REVIEW_DELIMITER, FormattedReviews(revs, reviewer_info))
    ELSE Join(REVIEW_DELIMITER, revs)

SynthesisSystemPrompt(s) ==
    IF s = "plus"
    THEN <<"Synthesize these 12 specialized blind reviews into a comprehensive actionable summary.">>
    ELSE <<"Synthesize these 6 blind reviews into a single actionable summary.">>

\* A synthesis sent to the first fallback model instead.
SynthesisTarget_FirstFallback == FALLBACK_MODELS[1]

\* The model the synthesis request is sent to.
SynthesisTarget == SYNTHESIS_MODEL

\* The request synthesize_reviews sends.
SynthesisRequest(s, revs, reviewer_info) ==
    Request(SynthesisTarget,
            << [role |-> "system", content |-> SynthesisSystemPrompt(s)],
               [role |-> "user", content |-> Combined(s, revs, reviewer_info)] >>,
            SynthesisTokens(s))

\* A synthesis whose exception is swallowed: the run goes on to the report.
AfterSynthesis_Swallowed(ok) == "verdict"

\* synthesis = synthesize_reviews(...): the call is not in a try block, so
\* its exception leaves trial_by_hex.
AfterSynthesis(ok) == IF ok THEN "verdict" ELSE "raised"

-----------------------------------------------------------------------------
(* The verdict and the report *)

PASS == <<"P", "A", "S", "S">>
REJECT == <<"R", "E", "J", "E", "C", "T">>

\* A verdict that also fails the run when a review is a failure placeholder.
Passed_UnlessDegraded(s, text) ==
    /\ Contains(Upper(text), PASS)
    /\ s = "plus" => ~Contains(Upper(text), REJECT)
    /\ \A i \in 1..Len(reviews) : reviews[i][1] # "Review failed: "

\* passed = "PASS" in synthesis.upper() [and "REJECT" not in synthesis.upper()]
Passed(s, text) ==
    IF s = "plus"
    THEN Contains(Upper(text), PASS) /\ ~Contains(Upper(text), REJECT)
    ELSE Contains(Upper(text), PASS)

\* A header that prints the two labels the other way round.
VerdictLabel_Inverted(s, passed) ==
    IF s = "plus"
    THEN (IF passed THEN "NEEDS REVISION" ELSE "PASSED")
    ELSE (IF passed THEN "(U+26A0) NEEDS REVISION" ELSE "(U+2713) PASSED")

\* **Verdict:** ...
VerdictLabel(s, passed) ==
    IF s = "plus"
    THEN (IF passed THEN "PASSED" ELSE "NEEDS REVISION")
    ELSE (IF passed THEN "(U+2713) PASSED" ELSE "(U+26A0) NEEDS REVISION")

\* **Focus:** {persona[:100]}{"..." if len(persona) > 100 else ""}, with
\* persona = reviewer.get('persona', '')[:200]; a chunk is 100 characters.
Focus(reviewer) ==
    LET persona == Take(reviewer.persona, 2)
    IN  Take(persona, 1) \o (IF Len(persona) > 1 THEN <<"...">> ELSE <<>>)

\* A report built while the last outcome is still missing.
IndividualReviews_Truncated(s, revs, reviewer_info) ==
    [i \in 1..(Len(revs) - 1) |->
        [number |-> i,
         name |-> DisplayName(reviewer_info[i], i),
         model |-> IF s = "plus" THEN reviewer_info[i].model
                   ELSE ModelShort(reviewer_info[i].model),
         persona |-> reviewer_info[i].persona,
         focus |-> Focus(reviewer_info[i]),
         text |-> revs[i]]]

\* The subsections of "## Individual Reviews".
IndividualReviews(s, revs, reviewer_info) ==
    IF s = "plus"
    THEN [i \in 1..ZipLen(revs, reviewer_info) |->
            [number |-> i,
             name |-> DisplayName(reviewer_info[i], i),
             model |-> reviewer_info[i].model,
             focus |-> Focus(reviewer_info[i]),
             text |-> revs[i]]]
    ELSE [i \in 1..Len(revs) |->
            [number |-> i,
             model |-> ModelShort(reviewer_info[i].model),
             persona |-> reviewer_info[i].persona,
             text |-> revs[i]]]

\* What output_path.write_text writes.
Report(s, passed, text, revs, reviewer_info) ==
    [title |-> IF s = "plus" THEN "# Trial by Hex+ Review" ELSE "# Trial by Hex Review",
     verdict |-> VerdictLabel(s, passed),
     synthesis |-> text,
     individual |-> IndividualReviews(s, revs, reviewer_info)]

\* The value trial_by_hex returns.
Result(passed, text) == [passed |-> passed, synthesis |-> text]

-----------------------------------------------------------------------------
(* The run *)

\* The start of a run, the panel aside.
RunStart ==
    /\ script \in Scripts
    /\ apiKeySet \in BOOLEAN
    /\ inputExists \in BOOLEAN
    /\ content = <<>>
    /\ pc = "start"
    /\ idx = 1
    /\ reviews = <<>>
    /\ attempts = <<>>
    /\ e = <<>>
    /\ fb = 1
    /\ review = <<>>
    /\ exc = <<>>
    /\ calls = <<>>
    /\ synthesis = <<>>
    /\ written = <<>>
    /\ returned = <<>>
    /\ earlier = <<>>

Init == RunStart /\ panel \in Panels(script)

\* if not OPENROUTER_API_KEY: ... return {"passed": False, ...}
CheckApiKey ==
    /\ pc = "start"
    /\ IF apiKeySet
       THEN pc' = "read" /\ UNCHANGED returned
       ELSE /\ pc' = "done"
            /\ returned' = <<Result(FALSE, <<"API key not set">>)>>
    /\ UNCHANGED <<earlier, script, panel, apiKeySet, inputExists, content, idx, reviews,
                   attempts, e, fb, review, exc, calls, synthesis, written>>

\* A script without the check of the input file.
InputFileChecked_Never(s) == FALSE

\* if not input_path.exists(): the legacy script has no such check.
InputFileChecked(s) == s # "legacy"

\* hex, plus: if not input_path.exists(): return ...; content = read_text().
\* legacy: content = Path(input_file).read_text(), which raises on a missing file.
ReadInput ==
    /\ pc = "read"
    /\ IF inputExists
       THEN /\ \E doc \in Documents : content' = doc
            /\ pc' = "loop"
            /\ UNCHANGED <<returned, exc>>
       ELSE IF ~InputFileChecked(script)
            THEN /\ exc' = <<"FileNotFoundError">>
                 /\ pc' = "raised"
                 /\ UNCHANGED <<returned, content>>
            ELSE /\ returned' = <<Result(FALSE, <<"Input file not found">>)>>
                 /\ pc' = "done"
                 /\ UNCHANGED <<exc, content>>
    /\ UNCHANGED <<earlier, script, panel, apiKeySet, inputExists, idx, reviews, attempts,
                   e, fb, review, calls, synthesis, written>>

\* The loop enters get_review, which sends the request to the reviewer's own model.
GetReviewPrimary ==
    /\ pc = "loop"
    /\ ~DispatchDone(idx, Len(panel))
    /\ LET req == ReviewRequest(script, panel[idx], panel[idx].model, content)
       IN  \E r \in ReviewResponses(req) :
             /\ attempts' = <<[request |-> req, result |-> r]>>
             /\ calls' = Append(calls, req)
             /\ pc' = AfterAttempt(r.ok, 0)
             /\ review' = IF r.ok THEN r.val ELSE review
             /\ e' = IF r.ok THEN e ELSE r.val
    /\ fb' = 1
    /\ UNCHANGED <<earlier, script, panel, apiKeySet, inputExists, content, idx, reviews,
                   exc, synthesis, written, returned>>

\* One turn of `for fallback in FALLBACK_MODELS`.
GetReviewFallback ==
    /\ pc = "fallback"
    /\ fb <= Len(FALLBACK_MODELS)
    /\ LET req == ReviewRequest(script, panel[idx], NextFallback(fb), content)
       IN  \E r \in ReviewResponses(req) :
             /\ attempts' = Append(attempts, [request |-> req, result |-> r])
             /\ calls' = Append(calls, req)
             /\ pc' = AfterAttempt(r.ok, fb)
             /\ review' = IF r.ok THEN r.val ELSE review
    /\ fb' = fb + 1
    /\ UNCHANGED <<earlier, script, panel, apiKeySet, inputExists, content, idx, reviews,
                   e, exc, synthesis, written, returned>>

\* The fallbacks are exhausted: raise e, which the loop's except clause catches.
GetReviewRaise ==
    /\ pc = "fallback"
    /\ fb > Len(FALLBACK_MODELS)
    /\ exc' = RaisedCause(e, attempts[Len(attempts)].result.val)
    /\ pc' = IF CatchesReviewError THEN "caught" ELSE "raised"
    /\ UNCHANGED <<earlier, script, panel, apiKeySet, inputExists, content, idx, reviews,
                   attempts, e, fb, review, calls, synthesis, written, returned>>

\* review = get_review(...); reviews.append(review)
AppendReview ==
    /\ pc = "got"
    /\ reviews' = RecordReview(reviews, review)
    /\ idx' = idx + 1
    /\ pc' = "loop"
    /\ UNCHANGED <<earlier, script, panel, apiKeySet, inputExists, content, attempts, e,
                   fb, review, exc, calls, synthesis, written, returned>>

\* except Exception as e: reviews.append(f"Review failed: {e}")
AppendFailure ==
    /\ pc = "caught"
    /\ reviews' = RecordFailure(reviews, exc)
    /\ exc' = <<>>
    /\ idx' = idx + 1
    /\ pc' = "loop"
    /\ UNCHANGED <<earlier, script, panel, apiKeySet, inputExists, content, attempts, e,
                   fb, review, calls, synthesis, written, returned>>

\* After the loop: synthesize_reviews builds the request and sends it.
SynthesizeCall ==
    /\ pc = "loop"
    /\ DispatchDone(idx, Len(panel))
    /\ calls' = Append(calls, SynthesisRequest(script, reviews, panel))
    /\ pc' = "synth"
    \* get_review's frame is gone: its calls and locals are dropped.
    /\ attempts' = <<>> /\ e' = <<>> /\ fb' = 1
    /\ UNCHANGED <<earlier, script, panel, apiKeySet, inputExists, content, idx, reviews,
                   review, exc, synthesis, written, returned>>

\* The synthesis request returns a text or raises.
SynthesizeReturn ==
    /\ pc = "synth"
    /\ \E r \in SynthesisResponses :
         /\ pc' = AfterSynthesis(r.ok)
         /\ synthesis' = IF r.ok THEN r.val ELSE synthesis
         /\ exc' = IF r.ok THEN exc ELSE r.val
    /\ UNCHANGED <<earlier, script, panel, apiKeySet, inputExists, content, idx, reviews,
                   attempts, e, fb, review, calls, written, returned>>

\* passed = ...; output_path.write_text(...); return {"passed": ..., "synthesis": ...}
WriteReport ==
    /\ pc = "verdict"
    /\ LET passed == Passed(script, synthesis)
       IN  /\ written' = Append(written, Report(script, passed, synthesis, reviews, panel))
           /\ returned' = <<Result(passed, synthesis)>>
    /\ pc' = "done"
    /\ UNCHANGED <<earlier, script, panel, apiKeySet, inputExists, content, idx, reviews,
                   attempts, e, fb, review, exc, calls, synthesis>>

Next ==
    \/ CheckApiKey
    \/ ReadInput
    \/ GetReviewPrimary
    \/ GetReviewFallback
    \/ GetReviewRaise
    \/ AppendReview
    \/ AppendFailure
    \/ SynthesizeCall
    \/ SynthesizeReturn
    \/ WriteReport

Spec == Init /\ [][Next]_vars

\* Every step of the script is a statement of one sequential program, and
\* every request returns or raises within its timeout (timeout=120 / 180).
FairSpec == Spec /\ WF_vars(Next)

\* The runs of a script whose REVIEWERS list may also have been left empty.
EmptyPanelInit == RunStart /\ panel \in Panels(script) \cup {<<>>}

EmptyPanelSpec == EmptyPanelInit /\ [][Next]_vars

-----------------------------------------------------------------------------
(* Vocabulary of the properties *)

IsPlaceholder(text) == Len(text) > 0 /\ text[1] = "Review failed: "

IsSynthesisRequest(req) == req.messages[1].content = SynthesisSystemPrompt(script)

\* The models the synthesis requests sent so far went to, in order.
SynthesisCallModels ==
    LET ks == { k \in 1..Len(calls) : IsSynthesisRequest(calls[k]) }
        RECURSIVE Pick(_)
        Pick(k) == IF k > Len(calls) THEN <<>>
                   ELSE (IF k \in ks THEN <<calls[k].model>> ELSE <<>>) \o Pick(k + 1)
    IN  Pick(1)

\* The synthesis request was sent and raised.
SynthesisFailed ==
    /\ calls # <<>>
    /\ IsSynthesisRequest(calls[Len(calls)])
    /\ exc # <<>>

\* The dispatch loop is over.
DispatchOver ==
    \/ pc \in {"synth", "verdict"}
    \/ pc \in {"done", "raised"} /\ calls # <<>>

\* The panel position the calls in `attempts` were made for.
AttemptsFor == IF pc = "loop" THEN idx - 1 ELSE idx

\* The texts and placeholders that can stand for one panel entry.
OutcomesFor(reviewer) ==
    { Placeholder(c) : c \in Causes }
        \cup { ReviewText(ReviewRequest(script, reviewer, m, content)) :
                 m \in {reviewer.model} \cup { FALLBACK_MODELS[k] : k \in 1..Len(FALLBACK_MODELS) } }

\* What a sequence of calls of one get_review amounts to.
OutcomeOf(atts) ==
    IF atts[Len(atts)].result.ok
    THEN atts[Len(atts)].result.val
    ELSE Placeholder(atts[1].result.val)

-----------------------------------------------------------------------------
(* Properties *)

\* C1: the dispatch loop ends with exactly one outcome per panel entry, and
\* outcome i is the text or the failure placeholder of panel entry i: a
\* reviewer whose primary and fallbacks all fail keeps its own position.
C1_OutcomePerReviewer ==
    /\ pc = "loop" => Len(reviews) = idx - 1
    /\ DispatchOver => Len(reviews) = Len(panel)
    /\ Len(reviews) <= Len(panel)
    /\ \A i \in 1..Len(reviews) :
         i <= Len(panel) => reviews[i] \in OutcomesFor(panel[i])

C1_Witness ==
    /\ pc = "synth"
    /\ Len(panel) = 2
    /\ IsPlaceholder(reviews[1])
    /\ ~IsPlaceholder(reviews[2])

\* C2: when the request to a reviewer's own model succeeds, get_review makes
\* no other request for that reviewer.
C2_PrimarySuccessNoFallback ==
    (attempts # <<>> /\ attempts[1].result.ok) => Len(attempts) = 1

C2_Witness ==
    /\ pc = "got"
    /\ idx = 2
    /\ attempts[1].result.ok

\* C3: the requests of one get_review go to the reviewer's model and then to
\* FALLBACK_MODELS in their listed order, and only the last of them can have
\* succeeded: fallback k is tried only after everything before it failed.
C3_FallbackOrder ==
    /\ Len(attempts) <= 1 + Len(FALLBACK_MODELS)
    /\ \A k \in 1..Len(attempts) :
         /\ attempts[k].request.model =
              (IF k = 1 THEN panel[AttemptsFor].model ELSE FALLBACK_MODELS[k - 1])
         /\ k < Len(attempts) => ~attempts[k].result.ok
    /\ pc = "got" => attempts[Len(attempts)].result.ok

C3_Witness ==
    /\ pc = "got"
    /\ Len(attempts) = 3
    /\ attempts[3].result.ok

\* C4: when the primary and every fallback fail, the failure get_review
\* raises, and the placeholder the loop records, carry the primary's cause.
C4_PrimaryCauseReported ==
    /\ pc = "caught" => exc = attempts[1].result.val
    /\ (pc = "loop" /\ attempts # <<>> /\ ~attempts[Len(attempts)].result.ok)
         => reviews[idx - 1] = Placeholder(attempts[1].result.val)

C4_Witness ==
    /\ pc = "loop"
    /\ Len(attempts) = 1 + Len(FALLBACK_MODELS)
    /\ ~attempts[Len(attempts)].result.ok
    /\ attempts[1].result.val # attempts[Len(attempts)].result.val

\* C5: a failed reviewer never ends the run: the only exceptions that leave
\* it come from reading the input or from the synthesis request, every panel
\* entry has been sent its request when the loop is over, and each outcome is
\* what that reviewer's own requests returned, whatever the others did.
C5_FailureIsolated ==
    /\ pc = "raised" => (calls = <<>> \/ IsSynthesisRequest(calls[Len(calls)]))
    /\ DispatchOver =>
         \A j \in 1..Len(panel) :
           \E k \in 1..Len(calls) :
             calls[k] = ReviewRequest(script, panel[j], panel[j].model, content)
    /\ (pc = "loop" /\ attempts # <<>>) => reviews[idx - 1] = OutcomeOf(attempts)

C5_Witness ==
    /\ pc = "loop"
    /\ idx = 3
    /\ IsPlaceholder(reviews[1])
    /\ attempts[1].result.ok
    /\ reviews[2] = attempts[1].result.val

\* C6 (as claimed): in the report, the subsection of a review that a fallback
\* model wrote names the model that wrote it.
C6_TaggedWithProducer ==
    \A r \in 1..Len(written) :
      \A i \in 1..Len(written[r].individual) :
        LET section == written[r].individual[i]
        IN  ~IsPlaceholder(section.text) =>
              section.text[2] =
                (IF script = "plus" THEN ModelShort(section.model) ELSE section.model)

\* C7: a synthesis request exists only once every panel entry has its outcome,
\* and its user message holds every one of them.
C7_SynthesisAfterAllOutcomes ==
    (pc \in {"synth", "verdict"} \/ SynthesisCallModels # <<>>
        \/ synthesis # <<>> \/ written # <<>>)
    => /\ Len(reviews) = Len(panel)
       /\ IsSynthesisRequest(calls[Len(calls)])
       /\ \A i \in 1..Len(panel) :
            Contains(calls[Len(calls)].messages[2].content, reviews[i])

C7_Witness ==
    /\ pc = "synth"
    /\ Len(panel) = 2
    /\ Len(reviews) = 2
    /\ IsPlaceholder(reviews[2])

C9_SynthesisFailureNoReport ==
    /\ SynthesisFailed => (pc = "raised" /\ written = <<>> /\ returned = <<>>)
    /\ written # <<>> => synthesis \in SynthesisTexts

C9_Witness ==
    /\ SynthesisFailed
    /\ pc = "raised"
    /\ written = <<>>
    /\ returned = <<>>
    /\ Len(reviews) = Len(panel)

\* C10: a run that got past the checks of the key and of the input file goes
\* on to a written report, unless the synthesis request fails; failed
\* reviewers do not stop it.
C10_ReportEventually ==
    (pc = "loop") ~> (written # <<>> \/ (pc = "raised" /\ SynthesisFailed))

C10_Witness ==
    /\ written # <<>>
    /\ Len(panel) = 2
    /\ \A i \in 1..Len(reviews) : IsPlaceholder(reviews[i])

-----------------------------------------------------------------------------
(* The verdict *)

REVISE == <<"R", "E", "V", "I", "S", "E">>
NEEDS_REVISION ==
    <<"N", "E", "E", "D", "S", " ", "R", "E", "V", "I", "S", "I", "O", "N">>

\* The four-valued verdict of the specification's Verdict Extractor.
SpecVerdict(text) ==
    LET u == Upper(text)
    IN  IF Contains(u, PASS) /\ ~Contains(u, REJECT) THEN "Pass"
        ELSE IF Contains(u, REJECT) THEN "Reject"
        ELSE IF Contains(u, REVISE) \/ Contains(u, NEEDS_REVISION) THEN "Revise"
        ELSE "Unknown"

PassedLabel == IF script = "plus" THEN "PASSED" ELSE "(U+2713) PASSED"
NeedsRevisionLabel ==
    IF script = "plus" THEN "NEEDS REVISION" ELSE "(U+26A0) NEEDS REVISION"

\* C11 (as claimed): in every script the run passes exactly when the
\* synthesis text, case-insensitively, contains "pass" and not "reject".
C11_PassIffPassAndNoReject ==
    written # <<>> =>
      /\ returned[1].passed =
           (Contains(Upper(synthesis), PASS) /\ ~Contains(Upper(synthesis), REJECT))
      /\ (written[1].verdict = PassedLabel) = returned[1].passed

-----------------------------------------------------------------------------
(* The verdict as a function of the synthesis text: two runs of one script *)

\* The outcomes a panel entry is given when only the verdict is looked at:
\* its own model's text, the last fallback's text, a failure placeholder.
VerdictOutcomes(reviewer) ==
    { ReviewText(ReviewRequest(script, reviewer, reviewer.model, content)),
      ReviewText(ReviewRequest(script, reviewer,
                               FALLBACK_MODELS[Len(FALLBACK_MODELS)], content)),
      Placeholder(<<"Read timed out">>) }

RECURSIVE OutcomeLists(_)
\* The lists `reviews` can be for a panel, one outcome per entry.
OutcomeLists(p) ==
    IF p = <<>> THEN { <<>> }
    ELSE { <<o>> \o rest : o \in VerdictOutcomes(Head(p)), rest \in OutcomeLists(Tail(p)) }

\* Before a run of the script is looked at: nothing of it is fixed yet.
VerdictInit ==
    /\ script \in Scripts
    /\ apiKeySet = TRUE
    /\ inputExists = TRUE
    /\ content \in Documents
    /\ panel = <<>>
    /\ reviews = <<>>
    /\ synthesis = <<>>
    /\ pc = "run"
    /\ idx = 1
    /\ attempts = <<>>
    /\ e = <<>>
    /\ fb = 1
    /\ review = <<>>
    /\ exc = <<>>
    /\ calls = <<>>
    /\ written = <<>>
    /\ returned = <<>>
    /\ earlier = <<>>

\* A run taken at the point where synthesize_reviews has returned: any panel,
\* any outcomes, any synthesis text.
VerdictDraw ==
    /\ pc = "run"
    /\ panel' \in Panels(script)
    /\ reviews' \in OutcomeLists(panel')
    /\ synthesis' \in SynthesisTexts
    /\ pc' = "verdict"
    /\ idx' = Len(panel') + 1
    /\ calls' = <<SynthesisRequest(script, reviews', panel')>>
    /\ UNCHANGED <<earlier, script, apiKeySet, inputExists, content, attempts, e,
                   fb, review, exc, written, returned>>

\* The script is run again (python trial_by_hex.py ...): what the finished
\* run wrote is kept for comparison.
VerdictAgain ==
    /\ pc = "done"
    /\ written # <<>>
    /\ earlier' = << [synthesis |-> synthesis,
                      passed |-> returned[1].passed,
                      verdict |-> written[1].verdict,
                      degraded |-> \E i \in 1..Len(reviews) :
                                      reviews[i][1] = "Review failed: "] >>
    /\ panel' = <<>>
    /\ reviews' = <<>>
    /\ synthesis' = <<>>
    /\ pc' = "run"
    /\ idx' = 1
    /\ calls' = <<>>
    /\ written' = <<>>
    /\ returned' = <<>>
    /\ UNCHANGED <<script, apiKeySet, inputExists, content, attempts, e, fb,
                   review, exc>>

VerdictNext ==
    \/ VerdictDraw
    \/ WriteReport
    \/ VerdictAgain

VerdictSpec == VerdictInit /\ [][VerdictNext]_vars

-----------------------------------------------------------------------------
(* The checks before dispatch *)

PreDispatchCheckFails ==
    \/ ~apiKeySet
    \/ ~inputExists /\ script \in {"hex", "plus"}

FailureReason == IF ~apiKeySet THEN <<"API key not set">> ELSE <<"Input file not found">>

\* C15: a run whose pre-dispatch check fails (key not set, or in hex and plus
\* the input file missing) does no partial work: no request is ever sent, no
\* outcome is recorded, no report is written, nothing is raised, and once
\* the run has ended its result is passed = false with the reason.
C15_PreDispatchShortCircuit ==
    PreDispatchCheckFails =>
        /\ calls = <<>>
        /\ reviews = <<>>
        /\ written = <<>>
        /\ pc \in {"start", "read", "done"}
        /\ pc = "done" => returned = <<[passed |-> FALSE, synthesis |-> FailureReason]>>

C15_Witness ==
    /\ pc = "done"
    /\ apiKeySet
    /\ ~inputExists
    /\ script = "plus"
    /\ returned = <<[passed |-> FALSE, synthesis |-> <<"Input file not found">>]>>


-----------------------------------------------------------------------------
(* The report *)

\* C16: every report written has exactly one subsection per panel entry, in
\* panel order; subsection i is numbered i, names panel entry i (hex, legacy:
\* the last segment of its model id and its persona; plus: its display name,
\* its model id and the excerpt of its persona) and carries outcome i whole,
\* a text or a placeholder of that very entry.
C16_ReportSections ==
    \A r \in 1..Len(written) :
        LET sections == written[r].individual
        IN  /\ Len(sections) = Len(panel)
            /\ Len(reviews) = Len(panel)
            /\ \A i \in 1..Len(sections) :
                 /\ sections[i].number = i
                 /\ sections[i].text = reviews[i]
                 /\ sections[i].text \in OutcomesFor(panel[i])
                 /\ IF script = "plus"
                    THEN /\ sections[i].model = panel[i].model
                         /\ sections[i].name =
                              (IF "name" \in DOMAIN panel[i] THEN panel[i].name
                               ELSE <<"Reviewer ", NumStr(i)>>)
                         /\ sections[i].focus[1] = panel[i].persona[1]
                    ELSE /\ sections[i].model = panel[i].model[Len(panel[i].model)]
                         /\ sections[i].persona = panel[i].persona

C16_Witness ==
    /\ written # <<>>
    /\ Len(written[1].individual) = 2
    /\ IsPlaceholder(written[1].individual[1].text)
    /\ ~IsPlaceholder(written[1].individual[2].text)


-----------------------------------------------------------------------------
(* The user message of the synthesis as a function of the outcomes *)

\* What a reviewer writes besides the delimiter and the labels.
Words == { <<"A">> }

\* The label line the plus script puts before review i.
LabelLine(reviewer, i) == <<"### ">> \o DisplayName(reviewer, i) \o <<"\n">>

\* The texts a model can return for a panel: a word, or a text that itself
\* holds the delimiter, alone or followed by a label line of the panel.
TextsFor(p) ==
    Words \cup
    { w \o REVIEW_DELIMITER \o lab \o v :
        w \in Words, v \in Words,
        lab \in {<<>>} \cup { LabelLine(p[i], i) : i \in 1..Len(p) } }

RECURSIVE TextLists(_, _)
\* The lists of n texts.
TextLists(n, texts) ==
    IF n = 0 THEN { <<>> }
    ELSE { Append(rest, t) : rest \in TextLists(n - 1, texts), t \in texts }

\* Before synthesize_reviews is applied: nothing is fixed yet.
JoinInit ==
    /\ script \in Scripts
    /\ apiKeySet = TRUE
    /\ inputExists = TRUE
    /\ content \in Documents
    /\ panel = <<>>
    /\ reviews = <<>>
    /\ synthesis = <<>>
    /\ pc = "join"
    /\ idx = 1
    /\ attempts = <<>>
    /\ e = <<>>
    /\ fb = 1
    /\ review = <<>>
    /\ exc = <<>>
    /\ calls = <<>>
    /\ written = <<>>
    /\ returned = <<>>
    /\ earlier = <<>>

\* The loop has ended with some panel and some list of texts.
JoinDraw ==
    /\ pc = "join"
    /\ panel' \in Panels(script)
    /\ reviews' \in TextLists(Len(panel'), TextsFor(panel'))
    /\ idx' = Len(panel') + 1
    /\ pc' = "loop"
    /\ UNCHANGED <<earlier, script, apiKeySet, inputExists, content, attempts, e,
                   fb, review, exc, calls, synthesis, written, returned>>

\* synthesize_reviews is applied to another list: the list and the message
\* of this application are kept for comparison.
JoinAgain ==
    /\ pc = "synth"
    /\ earlier' = << [identities |-> [i \in 1..Len(panel) |->
                                        <<panel[i].model, DisplayName(panel[i], i)>>],
                      reviews |-> reviews,
                      message |-> calls[1].messages[2].content] >>
    /\ panel' = <<>>
    /\ reviews' = <<>>
    /\ idx' = 1
    /\ calls' = <<>>
    /\ pc' = "join"
    /\ UNCHANGED <<script, apiKeySet, inputExists, content, attempts, e, fb,
                   review, exc, synthesis, written, returned>>

JoinNext ==
    \/ JoinDraw
    \/ SynthesizeCall
    \/ JoinAgain

JoinSpec == JoinInit /\ [][JoinNext]_vars

\* C17: the user message of the synthesis determines the outcome sequence:
\* two applications of synthesize_reviews that build the same message were
\* given the same reviewer identities and the same texts, also when a text
\* holds the delimiter or a label line.  (Read under JoinSpec.)
C17_SerializationLossless ==
    ( /\ pc = "synth"
      /\ earlier # <<>>
      /\ earlier[1].message = calls[1].messages[2].content )
    => /\ earlier[1].reviews = reviews
       /\ earlier[1].identities =
            [i \in 1..Len(panel) |-> <<panel[i].model, DisplayName(panel[i], i)>>]


-----------------------------------------------------------------------------
(* The panel *)

\* No two entries of a list have the same model id.
ModelIdsUnique(list) ==
    \A i \in 1..Len(list) : \A j \in 1..Len(list) :
        i # j => list[i].model # list[j].model

\* C18 as stated: no two entries of the REVIEWERS list of the running script
\* share a model id, the 12-entry list of the plus script included.
C18_ModelIdsUnique == ModelIdsUnique(REVIEWERS(script))

\* C18 as the code has it: the model ids are unique in the 6-entry list of
\* trial_by_hex.py and within each half of the plus list; across the halves
\* of the plus list a model id recurs, and what tells the 12 entries apart is
\* the persona and the label under which the entry is shown.  The panel of
\* the run is drawn from that list.
C18_ModelIdsUniquePerList ==
    LET list == REVIEWERS(script)
    IN  /\ script # "plus" => ModelIdsUnique(list)
        /\ script = "plus" =>
             /\ ModelIdsUnique(SubSeq(list, 1, 6))
             /\ ModelIdsUnique(SubSeq(list, 7, Len(list)))
             /\ \E i \in 1..6 : \E j \in 7..Len(list) : list[i].model = list[j].model
        /\ \A i \in 1..Len(list) : \A j \in 1..Len(list) :
             i # j => /\ list[i].persona # list[j].persona
                      /\ DisplayName(list[i], i) # DisplayName(list[j], j)
        /\ \A k \in 1..Len(panel) : \E i \in 1..Len(list) : panel[k] = list[i]

\* A plus run has written its report with a reviewer of the second half whose
\* model id is also that of an entry of the first half.
C18_Witness ==
    /\ script = "plus"
    /\ written # <<>>
    /\ \E k \in 1..Len(panel) :
         /\ "name" \in DOMAIN panel[k]
         /\ \E i \in 1..6 : REVIEWERS(script)[i].model = panel[k].model


-----------------------------------------------------------------------------
(* The requests *)

\* C19: all requests sent for one reviewer, to its own model and to the
\* fallbacks, carry the same two messages and the same token budget: a
\* system message that embeds the reviewer's persona and a user message that
\* is the document as read; among the review requests of a run only the
\* model and the system message ever differ.
C19_SameLogicalRequest ==
    /\ \A k \in 1..Len(attempts) :
         LET req == attempts[k].request
             reviewer == panel[AttemptsFor]
         IN  /\ req.messages = attempts[1].request.messages
             /\ req.max_tokens = attempts[1].request.max_tokens
             /\ Len(req.messages) = 2
             /\ req.messages[1].role = "system"
             /\ Contains(req.messages[1].content, reviewer.persona)
             /\ req.messages[2] = [role |-> "user", content |-> content]
             /\ content \in Documents
             /\ DOMAIN req = {"model", "messages", "max_tokens"}
    /\ \A a \in 1..Len(calls) : \A b \in 1..Len(calls) :
         (~IsSynthesisRequest(calls[a]) /\ ~IsSynthesisRequest(calls[b]))
            => /\ calls[a].messages[2] = calls[b].messages[2]
               /\ calls[a].max_tokens = calls[b].max_tokens

\* A review has come from the second fallback, after two failed requests.
C19_Witness ==
    /\ pc = "got"
    /\ Len(attempts) = 3
    /\ ~attempts[1].result.ok
    /\ ~attempts[2].result.ok
    /\ attempts[3].result.ok
    /\ attempts[3].request.model # attempts[1].request.model

-----------------------------------------------------------------------------
(* The user message of the synthesis *)

\* What the claim expects for outcome i: the text itself, in the plus script
\* after a line with the name of panel entry i or "Reviewer i".
ExpectedItem(i) ==
    IF script = "plus"
    THEN <<"### ">>
         \o (IF "name" \in DOMAIN panel[i] THEN panel[i].name
             ELSE <<"Reviewer ", NumStr(i)>>)
         \o <<"\n">> \o reviews[i]
    ELSE reviews[i]

RECURSIVE ExpectedFrom(_)
\* Outcomes i, i+1, ..., N in that order with the delimiter between them.
ExpectedFrom(i) ==
    IF i > Len(panel) THEN <<>>
    ELSE ExpectedItem(i)
         \o (IF i < Len(panel) THEN <<"\n\n---REVIEW---\n\n">> ELSE <<>>)
         \o ExpectedFrom(i + 1)

\* C20: the user message of the synthesis request is outcome 1, ..., outcome
\* N in panel order, each once, with the '---REVIEW---' delimiter between
\* neighbours; in the plus script outcome i follows the label of panel entry
\* i (its name, else "Reviewer" and its 1-based position), and outcome i is
\* a text or placeholder of that entry.
C20_SynthesisMessage ==
    \A c \in 1..Len(calls) :
        IsSynthesisRequest(calls[c]) =>
            LET message == calls[c].messages[2].content
            IN  /\ calls[c].messages[2].role = "user"
                /\ Len(reviews) = Len(panel)
                /\ message = ExpectedFrom(1)
                /\ Cardinality({ k \in 1..Len(message) :
                                   message[k] = "\n\n---REVIEW---\n\n" }) = Len(panel) - 1
                /\ \A i \in 1..Len(panel) : reviews[i] \in OutcomesFor(panel[i])

\* The plus script has sent the synthesis request for an unnamed and a named
\* reviewer, the first of which failed.
C20_Witness ==
    /\ script = "plus"
    /\ pc = "synth"
    /\ Len(panel) = 2
    /\ "name" \notin DOMAIN panel[1]
    /\ "name" \in DOMAIN panel[2]
    /\ IsPlaceholder(reviews[1])
    /\ ~IsPlaceholder(reviews[2])
    /\ IsSynthesisRequest(calls[Len(calls)])


-----------------------------------------------------------------------------
(* The cost of get_review *)

\* The requests of the run sent for panel entry i: those whose system message
\* embeds its persona.
RequestsFor(i) ==
    { c \in 1..Len(calls) :
        /\ ~IsSynthesisRequest(calls[c])
        /\ Contains(calls[c].messages[1].content, panel[i].persona) }

\* The bound on the requests of one get_review, and which models they go to.
InvocationsBounded ==
    /\ Len(attempts) <= 1 + Len(FALLBACK_MODELS)
    /\ \A i \in 1..Len(panel) : Cardinality(RequestsFor(i)) <= 1 + Len(FALLBACK_MODELS)
    /\ \A k \in 2..Len(attempts) :
         /\ attempts[k].request.model = FALLBACK_MODELS[k - 1]
         /\ ~attempts[k - 1].result.ok
         /\ \A j \in 2..Len(attempts) :
              j # k => attempts[j].request.model # attempts[k].request.model
    /\ ( /\ Len(attempts) >= 2
         /\ panel[AttemptsFor].model = FALLBACK_MODELS[1] )
       => attempts[2].request.model = attempts[1].request.model

\* C21: get_review sends at most 1 + |FALLBACK_MODELS| requests for a
\* reviewer, the k-th fallback request going to the k-th fallback model, each
\* fallback model once and none passed over, so that the reviewer whose own
\* model is the first fallback has its failed model asked a second time; and
\* once the loop has reached a reviewer, get_review ends with a text or with
\* the exception the loop catches.
C21_BoundedAndFinishes ==
    /\ []InvocationsBounded
    /\ \A i \in 1..MaxPanel :
         (pc = "loop" /\ idx = i /\ i <= Len(panel))
            ~> (pc \in {"got", "caught"} /\ idx = i)

\* The reviewer whose model is the first fallback has failed on its own
\* model and on all three fallbacks: four requests, the first two to one model.
C21_Witness ==
    /\ pc = "caught"
    /\ panel[idx].model = FALLBACK_MODELS[1]
    /\ Len(attempts) = 1 + Len(FALLBACK_MODELS)
    /\ attempts[2].request.model = attempts[1].request.model
    /\ \A k \in 1..Len(attempts) : ~attempts[k].result.ok

=============================================================================
